---- MODULE Spec2Model ----
(***************************************************************************)
(* awaitComputationFinalization (js/src/arcium helpers): the polling loop  *)
(* that looks for the FinalizeComputationEvent of one computation offset   *)
(* in the recent transactions of the Arcium program.                       *)
(*                                                                         *)
(* Log lines are sequences of symbols.  A symbol is a number:              *)
(*   0..63  a character of the base64 alphabet, by its 6-bit value         *)
(*   PAD    the character '='                                              *)
(*   SP     an ASCII whitespace character                                  *)
(*   BAD    any other character (':', '!', ...)                            *)
(*   MARK   the 13 characters "Program data:" (no text of the model spells *)
(*          them otherwise, and the literal cannot overlap itself)         *)
(* A bigint is the little-endian sequence of its base-65536 limbs.         *)
(***************************************************************************)
EXTENDS Integers, Sequences, FiniteSets, TLC

\* ------------------------------------------------------------------ bounds
MaxLog == 2
MaxBudget == 2

\* --------------------------------------------------------------- symbols
PAD == 64
SP == 65
BAD == 66
MARK == 67

Limb == 65536

Min(a, b) == IF a < b THEN a ELSE b

\* ------------------------------------------------------- program constants
FINALIZE_COMPUTATION_EVENT_DISCRIMINATOR == <<27, 75, 117, 221, 191, 213, 253, 249>>

OffsetLen == 8
MinEventLen == 48

\* ------------------------------------------------------------ serializeLE
\* val & BigInt(255) on a non-negative bigint
BigLowByte(val) == IF Len(val) = 0 THEN 0 ELSE val[1] % 256

BigShr8NoCarry(val) == [i \in 1..Len(val) |-> val[i] \div 256]

\* val >>= BigInt(8)
BigShr8(val) ==
  [i \in 1..Len(val) |->
     (val[i] \div 256) + (IF i < Len(val) THEN (val[i + 1] % 256) * (Limb \div 256) ELSE 0)]

RECURSIVE serializeLoop(_, _, _)
serializeLoop(tempVal, i, lengthInBytes) ==
  IF i >= lengthInBytes THEN <<>>
  ELSE <<BigLowByte(tempVal)>> \o serializeLoop(BigShr8(tempVal), i + 1, lengthInBytes)

serializeLESaturating(val, lengthInBytes) ==
  IF Len(val) > (lengthInBytes + 1) \div 2
  THEN [i \in 1..lengthInBytes |-> 255]
  ELSE serializeLoop(val, 0, lengthInBytes)

serializeLE(val, lengthInBytes) == serializeLoop(val, 0, lengthInBytes)

\* ------------------------------------------------------------- bytesEqual
bytesEqualFirstOnly(a, b) ==
  IF Len(a) # Len(b) THEN FALSE ELSE Len(a) = 0 \/ a[1] = b[1]

bytesEqual(a, b) ==
  IF Len(a) # Len(b) THEN FALSE ELSE \A i \in 1..Len(a) : a[i] = b[i]

\* eventData.subarray(from, to): bytes from..to-1, 0-based, clamped to the length
subarray(data, from, to) ==
  SubSeq(data, from + 1, Min(to, Len(data)))

\* ------------------------------------------------------------ log.includes
\* log.includes('Program data:')
includesMarker(log) == \E i \in 1..Len(log) : log[i] = MARK

\* ------------------------------------------------- log.split('Program data: ')
\* position of the first 'Program data: ' (MARK followed by a space) at or after
\* from, or 0 when there is none
indexOfSep(log, from) ==
  LET at == { i \in from..(Len(log) - 1) : log[i] = MARK /\ log[i + 1] = SP }
  IN  IF at = {} THEN 0 ELSE CHOOSE i \in at : \A j \in at : i <= j

\* log.split('Program data: ')[1]: the text between the first separator and the
\* second one (or the end of the line); undefined when there is no separator
splitSecond(log) ==
  LET p == indexOfSep(log, 1) IN
  IF p = 0 THEN [defined |-> FALSE, text |-> <<>>]
  ELSE LET q == indexOfSep(log, p + 2) IN
       [defined |-> TRUE,
        text |-> IF q = 0 THEN SubSeq(log, p + 2, Len(log)) ELSE SubSeq(log, p + 2, q - 1)]

\* -------------------------------------------------------------------- atob
stripWhitespace(s) == SelectSeq(s, LAMBDA ch : ch # SP)

stripPadding(s) ==
  IF Len(s) % 4 = 0 /\ Len(s) > 0 /\ s[Len(s)] = PAD
  THEN IF Len(s) > 1 /\ s[Len(s) - 1] = PAD THEN SubSeq(s, 1, Len(s) - 2)
       ELSE SubSeq(s, 1, Len(s) - 1)
  ELSE s

\* every 4 characters give 3 bytes; 2 or 3 characters left over give 1 or 2
decodeSextets(s) ==
  [j \in 1..((Len(s) * 6) \div 8) |->
     LET base == 4 * ((j - 1) \div 3) IN
     CASE (j - 1) % 3 = 0 -> s[base + 1] * 4 + (s[base + 2] \div 16)
       [] (j - 1) % 3 = 1 -> (s[base + 2] % 16) * 16 + (s[base + 3] \div 4)
       [] OTHER -> (s[base + 3] % 4) * 64 + s[base + 4]]

\* atob(data): the decoded bytes, or thrown = TRUE for an InvalidCharacterError
atob(data) ==
  LET s == stripPadding(stripWhitespace(data)) IN
  IF Len(s) % 4 = 1 \/ (\E i \in 1..Len(s) : s[i] \notin 0..63)
  THEN [thrown |-> TRUE, bytes |-> <<>>]
  ELSE [thrown |-> FALSE, bytes |-> decodeSextets(s)]

\* ------------------------------------------- the examination of one log line
eventMatchesExactLength(eventData, offsetBytes, mxeProgramIdBytes) ==
  /\ Len(eventData) = MinEventLen
  /\ bytesEqual(subarray(eventData, 0, 8), FINALIZE_COMPUTATION_EVENT_DISCRIMINATOR)
  /\ bytesEqual(subarray(eventData, 8, 16), offsetBytes)
  /\ bytesEqual(subarray(eventData, 16, 48), mxeProgramIdBytes)

eventMatchesAnyOffset(eventData, offsetBytes, mxeProgramIdBytes) ==
  /\ Len(eventData) >= MinEventLen
  /\ bytesEqual(subarray(eventData, 0, 8), FINALIZE_COMPUTATION_EVENT_DISCRIMINATOR)
  /\ bytesEqual(subarray(eventData, 16, 48), mxeProgramIdBytes)

eventMatchesToTheEnd(eventData, offsetBytes, mxeProgramIdBytes) ==
  /\ Len(eventData) >= MinEventLen
  /\ bytesEqual(subarray(eventData, 0, 8), FINALIZE_COMPUTATION_EVENT_DISCRIMINATOR)
  /\ bytesEqual(subarray(eventData, 8, 16), offsetBytes)
  /\ bytesEqual(subarray(eventData, 16, Len(eventData)), mxeProgramIdBytes)

\* the body of the try block: TRUE when the line is the awaited event
eventMatches(eventData, offsetBytes, mxeProgramIdBytes) ==
  /\ Len(eventData) >= MinEventLen
  /\ bytesEqual(subarray(eventData, 0, 8), FINALIZE_COMPUTATION_EVENT_DISCRIMINATOR)
  /\ bytesEqual(subarray(eventData, 8, 16), offsetBytes)
  /\ bytesEqual(subarray(eventData, 16, 48), mxeProgramIdBytes)

examineLogNoInnerCatch(log, offsetBytes, mxeProgramIdBytes) ==
  IF ~includesMarker(log) THEN "continue"
  ELSE LET base64Data == splitSecond(log) IN
       IF ~base64Data.defined \/ base64Data.text = <<>> THEN "continue"
       ELSE LET decoded == atob(base64Data.text) IN
            IF decoded.thrown THEN "throw"
            ELSE IF eventMatches(decoded.bytes, offsetBytes, mxeProgramIdBytes)
                 THEN "return"
                 ELSE "continue"

\* one iteration of `for (const log of logs)`: "return", "continue", or "throw"
\* (an exception that leaves the iteration; the catch of line 129 leaves none)
examineLog(log, offsetBytes, mxeProgramIdBytes) ==
  IF ~includesMarker(log) THEN "continue"
  ELSE LET base64Data == splitSecond(log) IN
       IF ~base64Data.defined \/ base64Data.text = <<>> THEN "continue"
       ELSE LET decoded == atob(base64Data.text) IN
            IF decoded.thrown THEN "continue"
            ELSE IF eventMatches(decoded.bytes, offsetBytes, mxeProgramIdBytes)
                 THEN "return"
                 ELSE "continue"

\* `for (const log of logs)` from line i on: the first outcome that is not "continue"
RECURSIVE scanLogs(_, _, _, _)
scanLogsStopsAtMarker(logs, i, offsetBytes, mxeProgramIdBytes) ==
  IF i > Len(logs) THEN "continue"
  ELSE IF includesMarker(logs[i])
       THEN examineLog(logs[i], offsetBytes, mxeProgramIdBytes)
       ELSE scanLogs(logs, i + 1, offsetBytes, mxeProgramIdBytes)

scanLogs(logs, i, offsetBytes, mxeProgramIdBytes) ==
  IF i > Len(logs) THEN "continue"
  ELSE LET r == examineLog(logs[i], offsetBytes, mxeProgramIdBytes) IN
       IF r # "continue" THEN r
       ELSE scanLogs(logs, i + 1, offsetBytes, mxeProgramIdBytes)

\* ------------------------------------------------------------------ inputs
\* btoa: the standard base64 text of a byte sequence, as the emitting program
\* writes it after 'Program data: '
btoa(b) ==
  LET byte(i) == IF i <= Len(b) THEN b[i] ELSE 0 IN
  [j \in 1..(4 * ((Len(b) + 2) \div 3)) |->
     LET base == 3 * ((j - 1) \div 4) IN
     CASE (j - 1) % 4 = 0 -> byte(base + 1) \div 4
       [] (j - 1) % 4 = 1 -> (byte(base + 1) % 4) * 16 + (byte(base + 2) \div 16)
       [] (j - 1) % 4 = 2 ->
            IF base + 2 > Len(b) THEN PAD
            ELSE (byte(base + 2) % 16) * 4 + (byte(base + 3) \div 64)
       [] OTHER -> IF base + 3 > Len(b) THEN PAD ELSE byte(base + 3) % 64]

\* computation offsets (bigints, base-65536 limbs, least significant first)
OffsetA == <<30481, 21862, 13124, 4386>>      \* 0x1122334455667711
OffsetB == <<30481, 21862, 13124, 4642>>      \* 0x1222334455667711

\* their 8 little-endian bytes as the emitting program writes them
OffsetABytes == <<17, 119, 102, 85, 68, 51, 34, 17>>
OffsetBBytes == <<17, 119, 102, 85, 68, 51, 34, 18>>

\* getAddressEncoder().encode(address): the 32 bytes of an address
AddressBytes(address) ==
  IF address = "mxe" THEN [i \in 1..32 |-> 171]
  ELSE [i \in 1..32 |-> IF i = 32 THEN 172 ELSE 171]

OPPORTUNITY_MARKET_PROGRAM_ADDRESS == "mxe"

\* line 33: the address of the Arcium program
ARCIUM_PROGRAM_ID == "arcium"

\* the strings the encoder of line 83 accepts: the base58 texts of 32 bytes.
\* Of any other string it throws.
ValidAddresses == {"mxe", "other", "arcium"}

\* an options.mxeProgramId that is the address of another program, and one that
\* is no address at all (the type Address is erased when the code runs)
OtherProgram == "other"
NotAnAddress == "not-an-address"

WrongDiscriminator == <<27, 75, 117, 221, 191, 213, 253, 248>>

\* the bytes of a FinalizeComputationEvent and of its near misses
Event(disc, offsetBytes, address) == disc \o offsetBytes \o AddressBytes(address)

EventA == Event(FINALIZE_COMPUTATION_EVENT_DISCRIMINATOR, OffsetABytes, "mxe")
EventB == Event(FINALIZE_COMPUTATION_EVENT_DISCRIMINATOR, OffsetBBytes, "mxe")

\* log lines
Framed(payload) == <<MARK, SP>> \o btoa(payload)
Plain == <<15, 43, BAD, SP, 33, 40>>

LineA == Framed(EventA)
LineB == Framed(EventB)
LineATrailing == Framed(EventA \o <<1, 2>>)
LineAPrefixed == Plain \o <<SP>> \o LineA
LineWrongDisc == Framed(Event(WrongDiscriminator, OffsetABytes, "mxe"))
LineWrongEmitter == Framed(Event(FINALIZE_COMPUTATION_EVENT_DISCRIMINATOR, OffsetABytes, "other"))
LineShort == Framed(SubSeq(EventA, 1, 47))
LineNotBase64 == <<MARK, SP, 12, BAD, 13, 14>>
LineTruncated == SubSeq(LineA, 1, Len(LineA) - 3)
LineEmpty == <<MARK, SP>>
LineNoSpace == <<MARK>> \o btoa(EventA)
LineTwice == <<MARK, SP, 12, 13, SP>> \o LineA

Malformed == {LineNotBase64, LineTruncated, LineEmpty, LineNoSpace}

\* the transactions the Arcium program may appear in, by their logMessages
TxKinds ==
  << << Plain, LineWrongDisc, LineShort, LineWrongEmitter, LineTwice,
        LineNotBase64, LineTruncated, LineEmpty, LineNoSpace >>,
     << Plain, Plain, LineA, Plain, Plain, Plain >>,
     << LineB >>,
     << LineB, LineATrailing >>,
     << LineNotBase64, LineTruncated, LineEmpty, LineNoSpace, Plain, LineShort,
        LineWrongDisc, LineAPrefixed >> >>

\* the offsets and programs calls are made for, and every logMessages there is
Offsets == {OffsetA, OffsetB, OffsetA \o <<1>>, OffsetA \o <<-1>>}
Programs == {OPPORTUNITY_MARKET_PROGRAM_ADDRESS, OtherProgram}
PossibleLogMessages == { TxKinds[k] : k \in 1..Len(TxKinds) } \cup { <<>> }

\* lines 82-83 and 109-133: the scan of a transaction's logMessages against the
\* keys of a call, for every logMessages and every call there is
scanOutcome ==
  [logs \in PossibleLogMessages |->
     [offset \in Offsets |->
        [address \in Programs |->
           scanLogs(logs, 1, serializeLE(offset, OffsetLen), AddressBytes(address))]]]

\* ------------------------------------------------------------------- state
Calls == {1, 2}

VARIABLES
  log,          \* the Arcium program's transactions, oldest first, by kind; the
                \* signature of a transaction is its position
  landing,      \* the kinds of transaction that land during the run
  active,       \* the calls of awaitComputationFinalization that are made
  computationOffset,   \* the argument computationOffset
  options,      \* the argument options, as the caller wrote it
  mxeProgramId, commitment, signaturesToCheck, pollInterval, maxAttempts,
                \* the constants of lines 80-87
  state,        \* Idle, Polling, Found, TimedOut (Failed: any other rejection)
  pending,      \* the await the call is suspended at: none, list, fetch, sleep
  attempt,      \* the loop counter
  signatures,   \* the listing of the current attempt
  sigIndex,     \* position in signatures of the transaction being fetched
  fetched,      \* what each getTransaction of the current attempt returned
  caught,       \* the error the catch of line 137 caught in this attempt
  result,       \* the signature the call resolved with (0: none)
  thrown,       \* the error the call rejected with
  listCalls, fetchCalls, sleeps,   \* calls issued so far
  listRequest,  \* the arguments of the last getSignaturesForAddress issued
  asked,        \* the signatures getTransaction was issued for in this attempt
  fetchRequest, \* the arguments of the last getTransaction issued
  timerDelay,   \* the delay of the last setTimeout (<<>>: none yet)
  kept,         \* the calls whose awaits are written down in heard
  heard,        \* what the awaits of a call in kept resolved with, in order
  cancelRequested,  \* the caller of the call no longer wants its result
  codecVal, codecWidth, codecOut,  \* a use of serializeLE on its own
  probe, verdict,  \* two lines put to the body of `for (const log of logs)`
  \* X25519Provider (demo-app/components/x25519-provider.tsx)
  publicKey,       \* useWallet().publicKey: "none" or the connected wallet
  keypair, loading, error,   \* the provider's useState cells
  isDerivingRef,   \* isDerivingRef.current
  localStorage,    \* the item under STORAGE_KEY_PREFIX + wallet, per wallet
  signing,         \* the signMessage requests in flight, per wallet asked
  effectDue,       \* the effect's dependencies changed and it has not run yet
  walletEvents,    \* the number of connects, disconnects and switches so far
  \* computeMarketStatus (part_007)
  market,          \* the argument
  dateNow,         \* Date.now(), in milliseconds
  status           \* the last status computed and the second it was computed in

vars == << log, landing, active, computationOffset, options, mxeProgramId, commitment,
           signaturesToCheck, pollInterval, maxAttempts,
           state, pending, attempt, signatures, sigIndex, fetched, caught, result,
           thrown, listCalls, fetchCalls, sleeps, listRequest, asked, fetchRequest,
           timerDelay, kept, heard, cancelRequested, codecVal, codecWidth, codecOut,
           probe, verdict, publicKey, keypair, loading, error, isDerivingRef, localStorage,
           signing, effectDue, walletEvents, market, dateNow, status >>

\* the provider and its wallet
provider == << publicKey, keypair, loading, error, isDerivingRef, localStorage, signing,
               effectDue, walletEvents >>

\* a market and the clock it is looked at with
marketVars == << market, dateNow, status >>

\* what is outside awaitComputationFinalization and serializeLE
others == << probe, verdict, provider, marketVars >>

\* what a call is made with and what surrounds it: nothing here is written by
\* the body of awaitComputationFinalization
args == << landing, active, computationOffset, options, mxeProgramId, commitment,
           signaturesToCheck, pollInterval, maxAttempts, kept, cancelRequested,
           codecVal, codecWidth, codecOut, others >>

\* what a call is made with
callArgs == << landing, active, computationOffset, options, mxeProgramId, commitment,
               signaturesToCheck, pollInterval, maxAttempts, kept >>

\* the log and what the calls own
awaitVars == << log, state, pending, attempt, signatures, sigIndex, fetched, caught, result,
                thrown, listCalls, fetchCalls, sleeps, timerDelay, listRequest, asked,
                fetchRequest, heard >>

NoError == [kind |-> "none", attempts |-> 0, offset |-> <<>>]

\* line 83: what getAddressEncoder().encode throws of a string that is no address
AddressError == [kind |-> "address", attempts |-> 0, offset |-> <<>>]

NoRequest == [address |-> "none", limit |-> 0]

NoFetch == [signature |-> 0, commitment |-> "none"]

\* ----------------------------------------------------------------- options
\* A property of options is <<>> when it is undefined (options itself
\* undefined, or the property left out), and <<v>> when it has the value v.
NoOptions ==
  [commitment |-> <<>>, mxeProgramId |-> <<>>, signaturesToCheck |-> <<>>,
   pollInterval |-> <<>>, maxAttempts |-> <<>>]

\* options with every property written out
ExplicitOptions(programs, windows, budgets, commitments, intervals) ==
  { [commitment |-> <<k>>, mxeProgramId |-> <<p>>, signaturesToCheck |-> <<w>>,
     pollInterval |-> <<i>>, maxAttempts |-> <<b>>] :
      p \in programs, w \in windows, b \in budgets, k \in commitments, i \in intervals }

\* options?.x ?? d
Nullish(x, d) == IF x = <<>> THEN d ELSE x[1]

DefaultSignaturesToCheck == 50
DefaultPollInterval == 1000
DefaultMaxAttempts == 120

ResolvedWithFixedWindow ==
  /\ mxeProgramId =
       [c \in Calls |-> Nullish(options[c].mxeProgramId, OPPORTUNITY_MARKET_PROGRAM_ADDRESS)]
  /\ commitment = [c \in Calls |-> Nullish(options[c].commitment, "confirmed")]
  /\ signaturesToCheck = [c \in Calls |-> DefaultSignaturesToCheck]
  /\ pollInterval = [c \in Calls |-> Nullish(options[c].pollInterval, DefaultPollInterval)]
  /\ maxAttempts = [c \in Calls |-> Nullish(options[c].maxAttempts, DefaultMaxAttempts)]

\* lines 80-87
Resolved ==
  /\ mxeProgramId =
       [c \in Calls |-> Nullish(options[c].mxeProgramId, OPPORTUNITY_MARKET_PROGRAM_ADDRESS)]
  /\ commitment = [c \in Calls |-> Nullish(options[c].commitment, "confirmed")]
  /\ signaturesToCheck =
       [c \in Calls |-> Nullish(options[c].signaturesToCheck, DefaultSignaturesToCheck)]
  /\ pollInterval = [c \in Calls |-> Nullish(options[c].pollInterval, DefaultPollInterval)]
  /\ maxAttempts = [c \in Calls |-> Nullish(options[c].maxAttempts, DefaultMaxAttempts)]

\* the options of a call that is not made
IdleOptions ==
  [commitment |-> <<"confirmed">>, mxeProgramId |-> <<OPPORTUNITY_MARKET_PROGRAM_ADDRESS>>,
   signaturesToCheck |-> <<1>>, pollInterval |-> <<DefaultPollInterval>>, maxAttempts |-> <<0>>]

TimeoutErrorCountsFromZero(c) ==
  [kind |-> "timeout", attempts |-> maxAttempts[c] - 1, offset |-> computationOffset[c]]

\* line 142: the timeout error
TimeoutError(c) ==
  [kind |-> "timeout", attempts |-> maxAttempts[c], offset |-> computationOffset[c]]

\* the state before any call has run: the calls in made are about to be made,
\* with the offsets given and options of choices
InitOptions(made, kinds, offsets, written, choices) ==
  /\ log = <<>>
  /\ landing = kinds
  /\ active = made
  /\ computationOffset = offsets
  /\ options \in { o \in [Calls -> choices \cup {IdleOptions}] :
                     /\ \A c \in made : o[c] \in choices
                     /\ \A c \in Calls \ made : o[c] = IdleOptions }
  /\ Resolved
  /\ kept = written
  /\ fetchRequest = [c \in Calls |-> NoFetch]
  /\ timerDelay = [c \in Calls |-> <<>>]
  /\ heard = [c \in Calls |-> <<>>]
  /\ listRequest = [c \in Calls |-> NoRequest]
  /\ asked = [c \in Calls |-> <<>>]
  /\ cancelRequested = [c \in Calls |-> FALSE]
  /\ state = [c \in Calls |-> "Idle"]
  /\ pending = [c \in Calls |-> "none"]
  /\ attempt = [c \in Calls |-> 0]
  /\ signatures = [c \in Calls |-> <<>>]
  /\ sigIndex = [c \in Calls |-> 0]
  /\ fetched = [c \in Calls |-> <<>>]
  /\ caught = [c \in Calls |-> "none"]
  /\ result = [c \in Calls |-> 0]
  /\ thrown = [c \in Calls |-> NoError]
  /\ listCalls = [c \in Calls |-> 0]
  /\ fetchCalls = [c \in Calls |-> 0]
  /\ sleeps = [c \in Calls |-> 0]

\* calls whose options are written out: an mxeProgramId of programs (or the
\* default program), a window of 1 or MaxLog, a budget of budgets (or 0)
InitCalls(made, kinds, budgets, offsets, programs, written) ==
  InitOptions(made, kinds, offsets, written,
              ExplicitOptions(programs \cup {OPPORTUNITY_MARKET_PROGRAM_ADDRESS}, {1, MaxLog},
                              budgets \cup {0}, {"confirmed"}, {DefaultPollInterval}))

NoProbe == [first |-> <<>>, second |-> <<>>, offsetBytes |-> <<>>, mxeProgramIdBytes |-> <<>>]

Wallets == {"A", "B", "C"}

\* no provider is mounted
ProviderIdle ==
  /\ publicKey = "none"
  /\ keypair = "null"
  /\ loading = FALSE
  /\ error = "null"
  /\ isDerivingRef = FALSE
  /\ localStorage = [w \in Wallets |-> "null"]
  /\ signing = [w \in Wallets |-> 0]
  /\ effectDue = FALSE
  /\ walletEvents = 0

NoMarket == [openTimestamp |-> <<>>, timeToStake |-> 0, timeToReveal |-> 0, selectedOption |-> <<>>]

NoStatus == [value |-> "none", now |-> 0]

\* no market is looked at
MarketIdle ==
  /\ market = NoMarket
  /\ dateNow = 0
  /\ status = NoStatus

\* nothing outside awaitComputationFinalization and serializeLE is in use
OthersIdle ==
  /\ probe = NoProbe
  /\ verdict = <<>>
  /\ ProviderIdle
  /\ MarketIdle

\* serializeLE is not in use on its own
CodecIdle ==
  /\ codecVal = <<>>
  /\ codecWidth = 0
  /\ codecOut = <<>>
  /\ OthersIdle

\* calls for different offsets that leave options.mxeProgramId out
InitWith(made, kinds, budgets) ==
  /\ InitCalls(made, kinds, budgets, [c \in Calls |-> IF c = 1 THEN OffsetA ELSE OffsetB],
               {OPPORTUNITY_MARKET_PROGRAM_ADDRESS}, {})
  /\ CodecIdle

Init == InitWith({1}, 1..Len(TxKinds), 0..MaxBudget)

\* ------------------------------------------------------------- log source
\* a transaction of the Arcium program lands
Emit(k) ==
  /\ k \in landing
  /\ Len(log) < MaxLog
  /\ log' = Append(log, k)
  /\ UNCHANGED << args, state, pending, attempt, signatures, sigIndex, fetched, caught,
                  result, thrown, listCalls, fetchCalls, sleeps, timerDelay, listRequest,
                  asked, fetchRequest,
                  heard >>

\* getSignaturesForAddress(ARCIUM_PROGRAM_ID, {limit}): the newest first
Listing(limit) ==
  [i \in 1..Min(limit, Len(log)) |-> Len(log) + 1 - i]

\* tx.meta?.logMessages || []
LogMessages(response, signature) ==
  IF response = "logs" THEN TxKinds[log[signature]] ELSE <<>>

\* what an await of a call resolved with (an RPC response, the timer of the
\* sleep), as a call in kept writes it down
Response(op, sigs, response, logs) ==
  [op |-> op, sigs |-> sigs, response |-> response, logs |-> logs]

Hear(c, r) ==
  heard' = [heard EXCEPT ![c] = IF c \in kept THEN Append(@, r) ELSE @]

\* ------------------------------------------------------------ the loop
\* lines 96-100: the arguments of getTransaction
FetchRequest(c, signature) == [signature |-> signature, commitment |-> commitment[c]]

\* lines 91-94: the arguments of getSignaturesForAddress
ListRequest(c) ==
  [address |-> ARCIUM_PROGRAM_ID, limit |-> signaturesToCheck[c]]

LoopHeadOffByOne(c, a) ==
  IF a <= maxAttempts[c]
  THEN /\ pending' = [pending EXCEPT ![c] = "list"]
       /\ listCalls' = [listCalls EXCEPT ![c] = @ + 1]
       /\ listRequest' = [listRequest EXCEPT ![c] = ListRequest(c)]
       /\ state' = [state EXCEPT ![c] = "Polling"]
       /\ thrown' = thrown
  ELSE /\ pending' = [pending EXCEPT ![c] = "none"]
       /\ listCalls' = listCalls
       /\ listRequest' = listRequest
       /\ state' = [state EXCEPT ![c] = "TimedOut"]
       /\ thrown' = [thrown EXCEPT ![c] = TimeoutError(c)]

LoopHeadAtLeastOnce(c, a) ==
  IF a < maxAttempts[c] \/ a = 0
  THEN /\ pending' = [pending EXCEPT ![c] = "list"]
       /\ listCalls' = [listCalls EXCEPT ![c] = @ + 1]
       /\ listRequest' = [listRequest EXCEPT ![c] = ListRequest(c)]
       /\ state' = [state EXCEPT ![c] = "Polling"]
       /\ thrown' = thrown
  ELSE /\ pending' = [pending EXCEPT ![c] = "none"]
       /\ listCalls' = listCalls
       /\ listRequest' = listRequest
       /\ state' = [state EXCEPT ![c] = "TimedOut"]
       /\ thrown' = [thrown EXCEPT ![c] = TimeoutError(c)]

\* the head of the for loop (line 89) with the counter at a: the next listing is
\* issued, or the loop is left and line 142 throws
LoopHead(c, a) ==
  IF a < maxAttempts[c]
  THEN /\ pending' = [pending EXCEPT ![c] = "list"]
       /\ listCalls' = [listCalls EXCEPT ![c] = @ + 1]
       /\ listRequest' = [listRequest EXCEPT ![c] = ListRequest(c)]
       /\ state' = [state EXCEPT ![c] = "Polling"]
       /\ thrown' = thrown
  ELSE /\ pending' = [pending EXCEPT ![c] = "none"]
       /\ listCalls' = listCalls
       /\ listRequest' = listRequest
       /\ state' = [state EXCEPT ![c] = "TimedOut"]
       /\ thrown' = [thrown EXCEPT ![c] = TimeoutError(c)]

GoToSleepNotAfterLast(c) ==
  /\ pending' = [pending EXCEPT ![c] = "sleep"]
  /\ sleeps' = [sleeps EXCEPT ![c] = IF attempt[c] + 1 < maxAttempts[c] THEN @ + 1 ELSE @]
  /\ timerDelay' = [timerDelay EXCEPT ![c] = <<pollInterval[c]>>]

\* lines 136 and 138: the sleep that ends an attempt
GoToSleep(c) ==
  /\ pending' = [pending EXCEPT ![c] = "sleep"]
  /\ sleeps' = [sleeps EXCEPT ![c] = @ + 1]
  /\ timerDelay' = [timerDelay EXCEPT ![c] = <<pollInterval[c]>>]

\* the call is made: lines 80-89 up to the first await. The keys of lines 82-83
\* are made before the loop and outside its try: what the encoder throws
\* rejects the call
Start(c) ==
  /\ c \in active
  /\ state[c] = "Idle"
  /\ IF mxeProgramId[c] \in ValidAddresses
     THEN /\ attempt' = [attempt EXCEPT ![c] = 0]
          /\ LoopHead(c, 0)
     ELSE /\ state' = [state EXCEPT ![c] = "Failed"]
          /\ thrown' = [thrown EXCEPT ![c] = AddressError]
          /\ UNCHANGED << attempt, pending, listCalls, listRequest >>
  /\ UNCHANGED << log, args, signatures, sigIndex, fetched, caught, result,
                  fetchCalls, sleeps, timerDelay, asked, fetchRequest, heard >>

NextSignatureAlwaysFirst(c, sigs, i) ==
  IF i <= Len(sigs)
  THEN /\ sigIndex' = [sigIndex EXCEPT ![c] = i]
       /\ pending' = [pending EXCEPT ![c] = "fetch"]
       /\ asked' = [asked EXCEPT ![c] = Append(@, sigs[1])]
       /\ fetchRequest' = [fetchRequest EXCEPT ![c] = FetchRequest(c, sigs[1])]
       /\ fetchCalls' = [fetchCalls EXCEPT ![c] = @ + 1]
       /\ sleeps' = sleeps
       /\ timerDelay' = timerDelay
  ELSE /\ sigIndex' = [sigIndex EXCEPT ![c] = 0]
       /\ fetchCalls' = fetchCalls
       /\ asked' = asked
       /\ fetchRequest' = fetchRequest
       /\ GoToSleep(c)

\* `for (const sigInfo of signatures)` reaches position i of the listing sigs:
\* the next getTransaction is issued, or the attempt ends in the sleep of line 136
NextSignature(c, sigs, i) ==
  IF i <= Len(sigs)
  THEN /\ sigIndex' = [sigIndex EXCEPT ![c] = i]
       /\ pending' = [pending EXCEPT ![c] = "fetch"]
       /\ asked' = [asked EXCEPT ![c] = Append(@, sigs[i])]
       /\ fetchRequest' = [fetchRequest EXCEPT ![c] = FetchRequest(c, sigs[i])]
       /\ fetchCalls' = [fetchCalls EXCEPT ![c] = @ + 1]
       /\ sleeps' = sleeps
       /\ timerDelay' = timerDelay
  ELSE /\ sigIndex' = [sigIndex EXCEPT ![c] = 0]
       /\ fetchCalls' = fetchCalls
       /\ asked' = asked
       /\ fetchRequest' = fetchRequest
       /\ GoToSleep(c)

\* getSignaturesForAddress resolves
ListReturn(c) ==
  /\ pending[c] = "list"
  /\ signatures' = [signatures EXCEPT ![c] = Listing(listRequest[c].limit)]
  /\ NextSignature(c, signatures'[c], 1)
  /\ Hear(c, Response("list", signatures'[c], "ok", <<>>))
  /\ UNCHANGED << log, args, state, attempt, fetched, caught, result, thrown, listCalls,
                  listRequest >>

CatchOuterBacksOff(c, what) ==
  /\ caught' = [caught EXCEPT ![c] = what]
  /\ pending' = [pending EXCEPT ![c] = "sleep"]
  /\ sleeps' = [sleeps EXCEPT ![c] = @ + 2]
  /\ timerDelay' = [timerDelay EXCEPT ![c] = <<pollInterval[c]>>]

\* the catch of line 137
CatchOuter(c, what) ==
  /\ caught' = [caught EXCEPT ![c] = what]
  /\ GoToSleep(c)

ListFailPropagates(c) ==
  /\ pending[c] = "list"
  /\ state' = [state EXCEPT ![c] = "Failed"]
  /\ thrown' = [thrown EXCEPT ![c] = [kind |-> "transport", attempts |-> 0, offset |-> <<>>]]
  /\ pending' = [pending EXCEPT ![c] = "none"]
  /\ UNCHANGED << log, args, attempt, signatures, sigIndex, fetched, caught, result,
                  listCalls, fetchCalls, sleeps, timerDelay, listRequest, asked,
                  fetchRequest, heard >>

\* getSignaturesForAddress rejects
ListFail(c) ==
  /\ pending[c] = "list"
  /\ CatchOuter(c, "list")
  /\ Hear(c, Response("list", <<>>, "error", <<>>))
  /\ UNCHANGED << log, args, state, attempt, signatures, sigIndex, fetched, result,
                  thrown, listCalls, fetchCalls, listRequest, asked, fetchRequest >>

ReturnSignatureAndGoOn(c, sig) ==
  /\ state' = [state EXCEPT ![c] = "Found"]
  /\ result' = [result EXCEPT ![c] = sig]
  /\ NextSignature(c, signatures[c], sigIndex[c] + 1)
  /\ UNCHANGED caught

ReturnFirstSignature(c, sig) ==
  /\ state' = [state EXCEPT ![c] = "Found"]
  /\ result' = [result EXCEPT ![c] = signatures[c][1]]
  /\ pending' = [pending EXCEPT ![c] = "none"]
  /\ UNCHANGED << sigIndex, caught, fetchCalls, sleeps, timerDelay, asked, fetchRequest >>

ReturnSignatureOnce(c, sig) ==
  IF \E d \in Calls \ {c} : result[d] = sig
  THEN /\ NextSignature(c, signatures[c], sigIndex[c] + 1)
       /\ UNCHANGED << state, result, caught >>
  ELSE /\ state' = [state EXCEPT ![c] = "Found"]
       /\ result' = [result EXCEPT ![c] = sig]
       /\ pending' = [pending EXCEPT ![c] = "none"]
       /\ UNCHANGED << sigIndex, caught, fetchCalls, sleeps, timerDelay, asked, fetchRequest >>

ReturnSignatureIfConfirmed(c, sig) ==
  IF commitment[c] # "confirmed"
  THEN /\ NextSignature(c, signatures[c], sigIndex[c] + 1)
       /\ UNCHANGED << state, result, caught >>
  ELSE /\ state' = [state EXCEPT ![c] = "Found"]
       /\ result' = [result EXCEPT ![c] = sig]
       /\ pending' = [pending EXCEPT ![c] = "none"]
       /\ UNCHANGED << sigIndex, caught, fetchCalls, sleeps, timerDelay, asked, fetchRequest >>

\* line 126: return sigInfo.signature
ReturnSignature(c, sig) ==
  /\ state' = [state EXCEPT ![c] = "Found"]
  /\ result' = [result EXCEPT ![c] = sig]
  /\ pending' = [pending EXCEPT ![c] = "none"]
  /\ UNCHANGED << sigIndex, caught, fetchCalls, sleeps, timerDelay, asked, fetchRequest >>

FetchReturnNeedsMeta(c, response) ==
  /\ pending[c] = "fetch"
  /\ fetched' = [fetched EXCEPT ![c] = Append(@, response)]
  /\ LET sig == asked[c][Len(asked[c])]
         outcome == IF response = "null" THEN "continue"
                    ELSE IF response = "nometa" THEN "throw"
                    ELSE scanOutcome[LogMessages(response, sig)]
                                    [computationOffset[c]][mxeProgramId[c]]
     IN  /\ Hear(c, Response("fetch", <<>>, response, LogMessages(response, sig)))
         /\ CASE outcome = "return" -> ReturnSignature(c, sig)
              [] outcome = "continue" ->
                   /\ NextSignature(c, signatures[c], sigIndex[c] + 1)
                   /\ UNCHANGED << state, result, caught >>
              [] OTHER ->
                   /\ CatchOuter(c, "scan")
                   /\ UNCHANGED << state, result, sigIndex, fetchCalls, asked, fetchRequest >>
  /\ UNCHANGED << log, args, attempt, signatures, thrown, listCalls, listRequest >>

\* getTransaction resolves with null, with a transaction without meta or
\* logMessages, or with the transaction's logMessages
FetchReturn(c, response) ==
  /\ pending[c] = "fetch"
  /\ fetched' = [fetched EXCEPT ![c] = Append(@, response)]
  /\ LET sig == asked[c][Len(asked[c])]
         outcome == IF response = "null" THEN "continue"
                    ELSE scanOutcome[LogMessages(response, sig)]
                                    [computationOffset[c]][mxeProgramId[c]]
     IN  /\ Hear(c, Response("fetch", <<>>, response, LogMessages(response, sig)))
         /\ CASE outcome = "return" -> ReturnSignature(c, sig)
              [] outcome = "continue" ->
                   /\ NextSignature(c, signatures[c], sigIndex[c] + 1)
                   /\ UNCHANGED << state, result, caught >>
              [] OTHER ->
                   /\ CatchOuter(c, "scan")
                   /\ UNCHANGED << state, result, sigIndex, fetchCalls, asked, fetchRequest >>
  /\ UNCHANGED << log, args, attempt, signatures, thrown, listCalls, listRequest >>

FetchFailPropagates(c) ==
  /\ pending[c] = "fetch"
  /\ state' = [state EXCEPT ![c] = "Failed"]
  /\ thrown' = [thrown EXCEPT ![c] = [kind |-> "transport", attempts |-> 0, offset |-> <<>>]]
  /\ pending' = [pending EXCEPT ![c] = "none"]
  /\ UNCHANGED << log, args, attempt, signatures, sigIndex, fetched, caught, result,
                  listCalls, fetchCalls, sleeps, timerDelay, listRequest, asked,
                  fetchRequest, heard >>

FetchFailGoesOn(c) ==
  /\ pending[c] = "fetch"
  /\ caught' = [caught EXCEPT ![c] = "fetch"]
  /\ NextSignature(c, signatures[c], sigIndex[c] + 1)
  /\ Hear(c, Response("fetch", <<>>, "error", <<>>))
  /\ UNCHANGED << log, args, state, attempt, signatures, fetched, result,
                  thrown, listCalls, listRequest >>

\* getTransaction rejects
FetchFail(c) ==
  /\ pending[c] = "fetch"
  /\ CatchOuter(c, "fetch")
  /\ Hear(c, Response("fetch", <<>>, "error", <<>>))
  /\ UNCHANGED << log, args, state, attempt, signatures, sigIndex, fetched, result,
                  thrown, listCalls, fetchCalls, listRequest, asked, fetchRequest >>

SleepNeverResolves(c) ==
  /\ pending[c] = "sleep"
  /\ UNCHANGED vars

SleepDoneRetriesAfterError(c) ==
  /\ pending[c] = "sleep"
  /\ attempt' = [attempt EXCEPT ![c] = IF caught[c] = "none" THEN @ + 1 ELSE @]
  /\ signatures' = [signatures EXCEPT ![c] = <<>>]
  /\ sigIndex' = [sigIndex EXCEPT ![c] = 0]
  /\ fetched' = [fetched EXCEPT ![c] = <<>>]
  /\ asked' = [asked EXCEPT ![c] = <<>>]
  /\ fetchRequest' = fetchRequest
  /\ caught' = [caught EXCEPT ![c] = "none"]
  /\ LoopHead(c, attempt'[c])
  /\ Hear(c, Response("timer", <<>>, "ok", <<>>))
  /\ UNCHANGED << log, args, result, fetchCalls, sleeps, timerDelay >>

\* the timer of line 136 or 138 fires: attempt++ and the head of the loop
SleepDone(c) ==
  /\ pending[c] = "sleep"
  /\ attempt' = [attempt EXCEPT ![c] = @ + 1]
  /\ signatures' = [signatures EXCEPT ![c] = <<>>]
  /\ sigIndex' = [sigIndex EXCEPT ![c] = 0]
  /\ fetched' = [fetched EXCEPT ![c] = <<>>]
  /\ asked' = [asked EXCEPT ![c] = <<>>]
  /\ fetchRequest' = fetchRequest
  /\ caught' = [caught EXCEPT ![c] = "none"]
  /\ LoopHead(c, attempt[c] + 1)
  /\ Hear(c, Response("timer", <<>>, "ok", <<>>))
  /\ UNCHANGED << log, args, result, fetchCalls, sleeps, timerDelay >>

Next ==
  \/ \E k \in 1..Len(TxKinds) : Emit(k)
  \/ \E c \in Calls : Start(c)
  \/ \E c \in Calls : ListReturn(c)
  \/ \E c \in Calls : ListFail(c)
  \/ \E c \in Calls : \E response \in {"null", "nometa", "logs"} : FetchReturn(c, response)
  \/ \E c \in Calls : FetchFail(c)
  \/ \E c \in Calls : SleepDone(c)

Spec == Init /\ [][Next]_vars

\* two concurrent calls for different offsets and the same MXE program
InitTwo ==
  /\ InitWith({1, 2}, {2, 3, 4}, {1})
  /\ \A c \in Calls : maxAttempts[c] = 1 /\ signaturesToCheck[c] = MaxLog

SpecTwo == InitTwo /\ [][Next]_vars

\* every await of a call settles: the RPC resolves or rejects, the timer fires
CallStep(c) ==
  \/ Start(c)
  \/ ListReturn(c)
  \/ ListFail(c)
  \/ FetchFail(c)
  \/ SleepDone(c)
  \/ \E response \in {"null", "nometa", "logs"} : FetchReturn(c, response)

FairSpec == Spec /\ \A c \in Calls : WF_vars(CallStep(c))

\* ======================================================================
\* What a transaction holds, told from how its lines were written (btoa),
\* not from how the loop reads them.
Payloads ==
  { EventA, EventB, EventA \o <<1, 2>>, SubSeq(EventA, 1, 47),
    Event(WrongDiscriminator, OffsetABytes, "mxe"),
    Event(FINALIZE_COMPUTATION_EVENT_DISCRIMINATOR, OffsetABytes, "other") }

\* the 8 little-endian bytes of the offsets the calls await
TrueOffsetBytes(offset) == IF offset = OffsetA THEN OffsetABytes ELSE OffsetBBytes

IsEventOf(p, handleBytes, emitterBytes) ==
  /\ Len(p) >= 48
  /\ SubSeq(p, 1, 8) = <<27, 75, 117, 221, 191, 213, 253, 249>>
  /\ SubSeq(p, 9, 16) = handleBytes
  /\ SubSeq(p, 17, 48) = emitterBytes

\* a line that is exactly 'Program data: ' + base64(payload)
FramedEventLines ==
  [offset \in {OffsetA, OffsetB} |->
     { Framed(p) : p \in { q \in Payloads :
                             IsEventOf(q, TrueOffsetBytes(offset), AddressBytes("mxe")) } }]

\* a line with the marker, possibly after other text, and the event as payload
EventLines ==
  [offset \in {OffsetA, OffsetB} |->
     FramedEventLines[offset] \cup { Plain \o <<SP>> \o l : l \in FramedEventLines[offset] }]

\* the kinds of transaction that hold such a line
KindsFramed ==
  [offset \in {OffsetA, OffsetB} |->
     { k \in 1..Len(TxKinds) :
         \E i \in 1..Len(TxKinds[k]) : TxKinds[k][i] \in FramedEventLines[offset] }]

KindsBearing ==
  [offset \in {OffsetA, OffsetB} |->
     { k \in 1..Len(TxKinds) :
         \E i \in 1..Len(TxKinds[k]) : TxKinds[k][i] \in EventLines[offset] }]

\* the kinds that bear the event once their malformed lines are taken out
KindsBearingWithoutMalformed ==
  [offset \in {OffsetA, OffsetB} |->
     { k \in 1..Len(TxKinds) :
         LET rest == SelectSeq(TxKinds[k], LAMBDA l : l \notin Malformed)
         IN  \E i \in 1..Len(rest) : rest[i] \in EventLines[offset] }]

KindsWithMalformed ==
  { k \in 1..Len(TxKinds) : \E i \in 1..Len(TxKinds[k]) : TxKinds[k][i] \in Malformed }

\* the kind of the i-th transaction of call c's current listing
KindAt(c, i) == log[signatures[c][i]]

\* getTransaction returned the logMessages of the i-th listed transaction
FetchedLogs(c, i) == i <= Len(fetched[c]) /\ fetched[c][i] = "logs"

Terminal == {"Found", "TimedOut"}

\* everything a call owns
Local(c) ==
  << state[c], pending[c], attempt[c], signatures[c], sigIndex[c], fetched[c], caught[c],
     result[c], thrown[c], listCalls[c], fetchCalls[c], sleeps[c], listRequest[c],
     asked[c], fetchRequest[c], timerDelay[c], heard[c] >>

\* ----------------------------------------------------------------------
\* C1 (as stated): whenever an attempt ends in its sleep, no transaction of the
\* attempt's listing holds a correctly framed line of the awaited event (a
\* transaction whose fetch returned null or no logMessages is not counted as
\* holding it).
C1_FoundWhenListed ==
  \A c \in Calls :
    pending[c] = "sleep" =>
      \A i \in 1..Len(signatures[c]) :
        ~ /\ KindAt(c, i) \in KindsFramed[computationOffset[c]]
          /\ (i <= Len(fetched[c]) => fetched[c][i] = "logs")

\* C1 (amended): whenever getTransaction has returned, in the current attempt, the
\* logMessages of a transaction that holds a correctly framed line of the awaited
\* event, the call has resolved with that transaction's signature, whatever other
\* lines and transactions the attempt saw.
C1_FoundWhenFetched ==
  \A c \in Calls :
    \A i \in 1..Len(fetched[c]) :
      (FetchedLogs(c, i) /\ KindAt(c, i) \in KindsFramed[computationOffset[c]]) =>
        /\ state[c] = "Found"
        /\ result[c] = signatures[c][i]
        /\ pending[c] = "none"

\* the event is found in the older of two listed transactions, among five
\* unrelated lines, after a transaction that holds only the other offset's event
C1_Witness ==
  /\ state[1] = "Found"
  /\ fetched[1] = <<"logs", "logs">>
  /\ KindAt(1, 1) = 3
  /\ KindAt(1, 2) = 2
  /\ result[1] = signatures[1][2]

\* ----------------------------------------------------------------------
\* C2: a call is Found only with the signature of the transaction it fetched last
\* in the current attempt, and the logMessages fetched hold a line with the marker
\* whose payload has at least 48 bytes, the discriminator in bytes 0..8, the
\* awaited offset (little-endian) in bytes 8..16 and the awaited program in bytes
\* 16..48.
C2_NoFalsePositive ==
  \A c \in Calls :
    state[c] = "Found" =>
      /\ sigIndex[c] \in 1..Len(signatures[c])
      /\ result[c] = signatures[c][sigIndex[c]]
      /\ Len(fetched[c]) = sigIndex[c]
      /\ fetched[c][sigIndex[c]] = "logs"
      /\ KindAt(c, sigIndex[c]) \in KindsBearing[computationOffset[c]]

\* the call passed over the transaction of near misses (wrong discriminator, 47
\* bytes, wrong program) and over the other offset's line before its match
C2_Witness ==
  /\ state[1] = "Found"
  /\ fetched[1] = <<"logs", "logs">>
  /\ KindAt(1, 1) = 1
  /\ KindAt(1, 2) = 4

\* ----------------------------------------------------------------------
\* C3: a call never issues more than maxAttempts listings; it is TimedOut only
\* after exactly maxAttempts listings, with the counter at maxAttempts and the
\* timeout error thrown; and every listing after the first was preceded by a sleep
\* of its own.
C3_TimeoutAfterMaxAttempts ==
  \A c \in Calls :
    /\ listCalls[c] <= maxAttempts[c]
    /\ state[c] = "TimedOut" =>
         /\ listCalls[c] = maxAttempts[c]
         /\ attempt[c] = maxAttempts[c]
         /\ result[c] = 0
         /\ thrown[c] = TimeoutError(c)
    /\ pending[c] \in {"list", "fetch"} => sleeps[c] = listCalls[c] - 1
    /\ pending[c] = "sleep" => sleeps[c] = listCalls[c]

\* a call with the largest budget timed out after it fetched transactions
C3_Witness ==
  /\ state[1] = "TimedOut"
  /\ maxAttempts[1] = MaxBudget
  /\ listCalls[1] = MaxBudget
  /\ fetchCalls[1] >= 1

\* ----------------------------------------------------------------------
\* C4: no line makes the call reject or an attempt end in the catch: a call is
\* never Failed, throws nothing but the timeout, and after getTransaction returned
\* logMessages the call is Found with that transaction exactly when the lines that
\* are left after the malformed ones are taken out bear the event.
C4_MalformedSkipped ==
  \A c \in Calls :
    /\ state[c] # "Failed"
    /\ thrown[c].kind \in {"none", "timeout"}
    /\ caught[c] # "scan"
    /\ \A i \in 1..Len(fetched[c]) :
         FetchedLogs(c, i) =>
           ((state[c] = "Found" /\ result[c] = signatures[c][i])
              <=> KindAt(c, i) \in KindsBearingWithoutMalformed[computationOffset[c]])

\* the event was found after four malformed lines of the same transaction
C4_Witness ==
  /\ state[1] = "Found"
  /\ log[result[1]] = 5
  /\ log[result[1]] \in KindsWithMalformed

\* ----------------------------------------------------------------------
\* C5: with two calls for different offsets running concurrently, a call is Found
\* only with a transaction that bears the event of its own offset, and a step
\* changes what at most one call owns.
C5_Independence ==
  /\ [](\A c \in Calls :
          state[c] = "Found" => log[result[c]] \in KindsBearing[computationOffset[c]])
  /\ [][\A c \in Calls : \A d \in Calls \ {c} :
          Local(c)' # Local(c) => Local(d)' = Local(d)]_vars

\* both calls found their events in the same transaction
C5_Witness ==
  /\ state[1] = "Found"
  /\ state[2] = "Found"
  /\ result[1] = result[2]
  /\ log[result[1]] = 4

\* ----------------------------------------------------------------------
\* C6: the step that makes a call Found, and every step after it, issues no
\* listing, no getTransaction and no sleep for that call, and leaves no await
\* pending.
C6_ImmediateReturn ==
  [][\A c \in Calls :
       state'[c] = "Found" =>
         /\ pending'[c] = "none"
         /\ listCalls'[c] = listCalls[c]
         /\ fetchCalls'[c] = fetchCalls[c]
         /\ sleeps'[c] = sleeps[c]]_vars

\* Found in the first of two listed transactions; the second was never fetched
C6_Witness ==
  /\ state[1] = "Found"
  /\ Len(signatures[1]) = 2
  /\ sigIndex[1] = 1
  /\ fetchCalls[1] = 1

\* ----------------------------------------------------------------------
\* C7: the signature a call resolves with is that of the first transaction, in
\* the order of the listing, whose fetched logMessages bear the event.
C7_FirstMatchWins ==
  \A c \in Calls :
    state[c] = "Found" =>
      \E i \in 1..Len(signatures[c]) :
        /\ result[c] = signatures[c][i]
        /\ FetchedLogs(c, i)
        /\ KindAt(c, i) \in KindsBearing[computationOffset[c]]
        /\ \A j \in 1..(i - 1) :
             ~(FetchedLogs(c, j) /\ KindAt(c, j) \in KindsBearing[computationOffset[c]])

\* two listed transactions bear the event and the newer one is returned
C7_Witness ==
  /\ state[1] = "Found"
  /\ Len(signatures[1]) = 2
  /\ KindAt(1, 1) \in KindsBearing[OffsetA]
  /\ KindAt(1, 2) \in KindsBearing[OffsetA]
  /\ result[1] = signatures[1][1]

C9_Termination ==
  \A c \in Calls : (state[c] = "Polling") ~> (state[c] \in Terminal)

\* a call that used its whole budget and fetched in every attempt
C9_Witness ==
  /\ state[1] = "TimedOut"
  /\ attempt[1] = MaxBudget
  /\ fetchCalls[1] > listCalls[1]

\* ----------------------------------------------------------------------
\* C10: a call never rejects with a transport error; when the listing or a
\* getTransaction rejects, the call stays Polling with nothing found and sleeps,
\* and its next step is the next attempt's listing or, with the budget used up,
\* the timeout.
C10_TransportErrorsAbsorbed ==
  [][\A c \in Calls :
       /\ state'[c] # "Failed"
       /\ thrown'[c].kind # "transport"
       /\ caught'[c] \in {"list", "fetch"} =>
            /\ state'[c] = "Polling"
            /\ pending'[c] = "sleep"
            /\ result'[c] = 0
       /\ (caught[c] \in {"list", "fetch"} /\ Local(c)' # Local(c)) =>
            /\ attempt'[c] = attempt[c] + 1
            /\ \/ state'[c] = "Polling" /\ pending'[c] = "list"
                    /\ listCalls'[c] = listCalls[c] + 1
               \/ state'[c] = "TimedOut" /\ attempt'[c] = maxAttempts[c]]_vars

\* the listing of the second attempt rejected
C10_Witness ==
  /\ caught[1] = "list"
  /\ attempt[1] = 1
  /\ pending[1] = "sleep"

\* ======================================================================
\* one call whose options carry an mxeProgramId: the default, the address of
\* another program, or a string that is no address
InitArgs ==
  /\ InitCalls({1}, {1, 2}, 1..MaxBudget, [c \in Calls |-> IF c = 1 THEN OffsetA ELSE OffsetB],
               {OtherProgram, NotAnAddress}, {})
  /\ CodecIdle

SpecArgs == InitArgs /\ [][Next]_vars

\* C11: the only failure a call ever raises is the timeout of line 142; no
\* other error reaches the caller, the one thrown while the keys are made of
\* the offset and of mxeProgramId included.
C11_OnlyTimeoutSurfaced ==
  \A c \in Calls : state[c] # "Failed" /\ thrown[c].kind \in {"none", "timeout"}

\* ----------------------------------------------------------------------
\* C12: a call that times out raises the timeout error once; the error carries
\* the offset the caller awaited and the number of attempts made, which is
\* maxAttempts.
C12_TimeoutCarriesOffsetAndAttempts ==
  [][\A c \in Calls :
       /\ state'[c] = "TimedOut" =>
            /\ thrown'[c].kind = "timeout"
            /\ thrown'[c].offset = computationOffset[c]
            /\ thrown'[c].attempts = listCalls'[c]
            /\ thrown'[c].attempts = maxAttempts[c]
       /\ thrown'[c] # thrown[c] => thrown[c] = NoError
       /\ thrown[c].kind = "timeout" => state'[c] = "TimedOut"]_vars

C12_Witness ==
  /\ thrown[1].kind = "timeout"
  /\ thrown[1].attempts = MaxBudget
  /\ thrown[1].offset = OffsetA
  /\ listCalls[1] = MaxBudget

\* ======================================================================
\* The caller of a call that is polling no longer wants its result. The
\* signature of awaitComputationFinalization (lines 69-79) has no parameter
\* such a request could come in by, and the body (lines 80-144) reads
\* nothing of the caller's after the call: no step of a call depends on
\* cancelRequested.
RequestCancel(c) ==
  /\ c \in active
  /\ state[c] = "Polling"
  /\ ~cancelRequested[c]
  /\ cancelRequested' = [cancelRequested EXCEPT ![c] = TRUE]
  /\ UNCHANGED << awaitVars, callArgs, codecVal, codecWidth, codecOut, others >>

NextCancel ==
  \/ Next
  \/ \E c \in Calls : RequestCancel(c)

InitCancel == InitWith({1}, {1, 2}, 1..MaxBudget)

SpecCancel == InitCancel /\ [][NextCancel]_vars

\* C13: once the caller of a call in progress has asked for it to be cancelled,
\* the call issues no further getSignaturesForAddress and no further
\* getTransaction.
C13_NoCallsAfterCancel ==
  [][\A c \in Calls :
       cancelRequested[c] =>
         /\ listCalls'[c] = listCalls[c]
         /\ fetchCalls'[c] = fetchCalls[c]]_vars

\* ======================================================================
\* serializeLE on its own: a bigint val >= 0 as little-endian limbs (base
\* Limb, zero limbs allowed at the end), and a length in bytes.
MaxLimbs == 4

LimbValues == {0, 1, 255, 256, 30481, 65535}

Handles ==
  {OffsetA, OffsetB} \cup UNION { [1..n -> LimbValues] : n \in 0..MaxLimbs }

Widths == {1, 2, 3, OffsetLen}

\* serializeLE(val, lengthInBytes) is called and returns
Encode ==
  /\ codecWidth > 0
  /\ codecOut = <<>>
  /\ codecOut' = serializeLE(codecVal, codecWidth)
  /\ UNCHANGED << awaitVars, callArgs, cancelRequested, codecVal, codecWidth, others >>

NextCodec == Encode

InitCodec ==
  /\ InitCalls({}, {}, {0}, [c \in Calls |-> IF c = 1 THEN OffsetA ELSE OffsetB],
               {OPPORTUNITY_MARKET_PROGRAM_ADDRESS}, {})
  /\ codecVal \in Handles
  /\ codecWidth \in Widths
  /\ codecOut = <<>>
  /\ OthersIdle

SpecCodec == InitCodec /\ [][NextCodec]_vars

\* The integer a byte sequence is when read little-endian, and what makes two
\* limb sequences the same integer; neither is taken from serializeLE.
FromLE(bytes) ==
  [i \in 1..((Len(bytes) + 1) \div 2) |->
     bytes[2 * i - 1] + (IF 2 * i <= Len(bytes) THEN 256 * bytes[2 * i] ELSE 0)]

Normalise(val) ==
  LET nz == { i \in 1..Len(val) : val[i] # 0 } IN
  IF nz = {} THEN <<>>
  ELSE SubSeq(val, 1, CHOOSE i \in nz : \A j \in nz : j <= i)

\* 0 <= val < 2^(8w)
Representable(val, w) ==
  \A i \in 1..Len(val) :
    /\ i > (w + 1) \div 2 => val[i] = 0
    /\ (i = (w + 1) \div 2 /\ w % 2 = 1) => val[i] < 256

\* C14: for 0 <= h < 2^(8w), serializeLE(h, w) has exactly w bytes, and read
\* back as a little-endian unsigned integer they are h.
C14_SerializeRoundTrip ==
  (codecOut # <<>> /\ Representable(codecVal, codecWidth)) =>
    /\ Len(codecOut) = codecWidth
    /\ \A i \in 1..Len(codecOut) : codecOut[i] \in 0..255
    /\ Normalise(FromLE(codecOut)) = Normalise(codecVal)

C14_Witness ==
  /\ codecVal = OffsetA
  /\ codecWidth = OffsetLen
  /\ Representable(codecVal, codecWidth)
  /\ codecOut = <<17, 119, 102, 85, 68, 51, 34, 17>>

\* ----------------------------------------------------------------------
\* C15: in every state of a call, whatever mixture of empty scans, skipped
\* lines and rejected RPC calls it went through, the listings issued so far
\* are at most maxAttempts: one per attempt begun, and a caught error begins
\* no attempt of its own.
C15_RetryCeiling ==
  \A c \in Calls :
    /\ listCalls[c] <= maxAttempts[c]
    /\ listCalls[c] <= attempt[c] + 1
    /\ state[c] = "Polling" => listCalls[c] = attempt[c] + 1
    /\ caught[c] # "none" => listCalls[c] = attempt[c] + 1

C15_Witness ==
  /\ maxAttempts[1] = MaxBudget
  /\ listCalls[1] = MaxBudget
  /\ caught[1] = "fetch"
  /\ pending[1] = "sleep"
  /\ \E i \in 1..Len(fetched[1]) : fetched[1][i] = "null"

\* ======================================================================
\* two calls made with the same offset, the same mxeProgramId and the same
\* options (one attempt each), over one log, each writing down what its awaits
\* resolve with
InitSame ==
  /\ InitCalls({1, 2}, {1, 2}, {1}, [c \in Calls |-> OffsetA],
               {OPPORTUNITY_MARKET_PROGRAM_ADDRESS}, {1, 2})
  /\ CodecIdle
  /\ signaturesToCheck[1] = signaturesToCheck[2]
  /\ \A c \in Calls : maxAttempts[c] = 1

SpecSame == InitSame /\ [][Next]_vars

SameArguments(c, d) ==
  /\ computationOffset[c] = computationOffset[d]
  /\ mxeProgramId[c] = mxeProgramId[d]
  /\ signaturesToCheck[c] = signaturesToCheck[d]
  /\ maxAttempts[c] = maxAttempts[d]

\* C16: two calls made with the same arguments, one after the other or
\* interleaved, whose awaits have resolved with the same responses are in the
\* same state: the same outcome, the same signature, the same number of
\* attempts and of RPC calls. Nothing a call does is kept for another: a
\* transaction one call was Found with is Found by the other when it is shown
\* the same responses.
C16_SameResponsesSameOutcome ==
  \A c, d \in active :
    (/\ SameArguments(c, d)
     /\ state[c] # "Idle"
     /\ state[d] # "Idle"
     /\ heard[c] = heard[d]) => Local(c) = Local(d)

C16_Witness ==
  /\ state[1] = "Found"
  /\ state[2] = "Found"
  /\ result[1] = result[2]
  /\ heard[1] = heard[2]
  /\ Len(heard[1]) >= 3
  /\ \E i \in 1..Len(heard[1]) : heard[1][i].response = "nometa"

\* ======================================================================
\* one call that writes down what its awaits resolve with, over a log of
\* transactions that do not bear its event
InitKept ==
  /\ InitCalls({1}, {1}, 1..MaxBudget, [c \in Calls |-> IF c = 1 THEN OffsetA ELSE OffsetB],
               {OPPORTUNITY_MARKET_PROGRAM_ADDRESS}, {1})
  /\ CodecIdle

SpecKept == InitKept /\ [][Next]_vars

\* C17: an attempt that ended in a caught error and an attempt that scanned
\* its window and found nothing leave the call in the same place: one listing
\* and one sleep were spent on it, and the timer of the sleep leads to the same
\* next attempt, or to the same timeout, whichever of the two it was.
C17_ErrorLikeEmpty ==
  [][\A c \in Calls :
       /\ pending[c] = "sleep" =>
            /\ state[c] = "Polling" /\ result[c] = 0 /\ thrown[c] = NoError
            /\ listCalls[c] = attempt[c] + 1
            /\ sleeps[c] = attempt[c] + 1
            /\ Local(c)' # Local(c) =>
                 /\ attempt'[c] = attempt[c] + 1
                 /\ sleeps'[c] = sleeps[c]
                 /\ IF attempt[c] + 1 < maxAttempts[c]
                    THEN /\ state'[c] = "Polling"
                         /\ pending'[c] = "list"
                         /\ listCalls'[c] = listCalls[c] + 1
                    ELSE /\ state'[c] = "TimedOut"
                         /\ thrown'[c] = TimeoutError(c)
                         /\ listCalls'[c] = listCalls[c]
       /\ state'[c] = "TimedOut" =>
            /\ listCalls'[c] = maxAttempts[c]
            /\ sleeps'[c] = maxAttempts[c]]_vars

\* a call that timed out after one attempt that ended in a rejected RPC call
\* and one that scanned a transaction and found nothing
C17_Witness ==
  /\ state[1] = "TimedOut"
  /\ maxAttempts[1] = 2
  /\ sleeps[1] = 2
  /\ \E i \in 1..Len(heard[1]) : heard[1][i].response = "error"
  /\ \E i \in 1..(Len(heard[1]) - 2) :
       /\ heard[1][i].op = "list" /\ heard[1][i].response = "ok"
       /\ heard[1][i + 1].op = "fetch" /\ heard[1][i + 1].response = "logs"
       /\ heard[1][i + 2].op = "timer"

\* ----------------------------------------------------------------------
\* the lines the scan passes over: without the marker, with nothing or
\* nothing decodable after it, with fewer than 48 bytes, with another
\* discriminator
Skippable == Malformed \cup {Plain, LineShort, LineWrongDisc}

KindsBearingWithoutSkippable ==
  [offset \in {OffsetA, OffsetB} |->
     { k \in 1..Len(TxKinds) :
         LET rest == SelectSeq(TxKinds[k], LAMBDA l : l \notin Skippable)
         IN  \E i \in 1..Len(rest) : rest[i] \in EventLines[offset] }]

KindsWithEverySkippable ==
  { k \in 1..Len(TxKinds) : \A l \in Skippable : \E i \in 1..Len(TxKinds[k]) : TxKinds[k][i] = l }

\* C18: a line that has to be passed over ends neither the scan of its
\* transaction nor the attempt: a fetched transaction is Found exactly when it
\* bears the event once such lines are taken out of it, and after a fetched
\* transaction that does not bear it the next listed transaction is fetched in
\* the same attempt.
C18_SkipAndContinue ==
  \A c \in Calls : \A i \in 1..Len(fetched[c]) :
    FetchedLogs(c, i) =>
      /\ (state[c] = "Found" /\ result[c] = signatures[c][i])
           <=> KindAt(c, i) \in KindsBearingWithoutSkippable[computationOffset[c]]
      /\ (KindAt(c, i) \notin KindsBearing[computationOffset[c]] /\ i < Len(signatures[c])) =>
           /\ Len(asked[c]) > i
           /\ asked[c][i + 1] = signatures[c][i + 1]

\* found behind every kind of line to pass over, in the transaction listed
\* after one that holds such lines only
C18_Witness ==
  /\ state[1] = "Found"
  /\ Len(fetched[1]) = 2
  /\ FetchedLogs(1, 1)
  /\ KindAt(1, 1) \in KindsWithEverySkippable \ KindsBearing[OffsetA]
  /\ KindAt(1, 2) \in KindsWithEverySkippable
  /\ result[1] = signatures[1][2]

\* ----------------------------------------------------------------------
\* C19: every getSignaturesForAddress a call issues asks for the most recent
\* transactions of the address the call was given as mxeProgramId
\* (options.mxeProgramId, or the default program address), with the limit
\* signaturesToCheck.
C19_ListsTheEmitterPassed ==
  [][\A c \in Calls :
       listCalls'[c] # listCalls[c] =>
         /\ listRequest'[c].address = mxeProgramId[c]
         /\ listRequest'[c].limit = signaturesToCheck[c]]_vars

\* ----------------------------------------------------------------------
\* C20: an attempt issues one getSignaturesForAddress, at its start, and after
\* it has resolved issues getTransaction only for signatures of that listing:
\* one at a time, in the order of the listing, each at most once, and no more
\* than signaturesToCheck of them.
C20_AttemptProtocol ==
  [][\A c \in Calls :
       /\ listCalls'[c] # listCalls[c] =>
            /\ listCalls'[c] = listCalls[c] + 1
            /\ state[c] = "Idle" \/ attempt'[c] = attempt[c] + 1
            /\ fetchCalls'[c] = fetchCalls[c]
       /\ attempt'[c] # attempt[c] => (state'[c] = "Polling" => listCalls'[c] = listCalls[c] + 1)
       /\ pending'[c] = "list" => asked'[c] = <<>>
       /\ fetchCalls'[c] # fetchCalls[c] =>
            /\ fetchCalls'[c] = fetchCalls[c] + 1
            /\ pending[c] \in {"list", "fetch"}
            /\ attempt'[c] = attempt[c]
            /\ Len(fetched'[c]) = Len(asked[c])
            /\ asked'[c] = Append(asked[c], signatures'[c][Len(asked[c]) + 1])
       /\ asked'[c] # asked[c] => (asked'[c] = <<>> \/ fetchCalls'[c] = fetchCalls[c] + 1)
       /\ Len(asked'[c]) <= Len(signatures'[c])
       /\ Len(asked'[c]) <= signaturesToCheck[c]
       /\ \A i \in 1..Len(asked'[c]) : asked'[c][i] = signatures'[c][i]
       /\ \A i, j \in 1..Len(asked'[c]) : asked'[c][i] = asked'[c][j] => i = j]_vars

C20_Witness ==
  /\ attempt[1] = 1
  /\ signaturesToCheck[1] = MaxLog
  /\ pending[1] = "fetch"
  /\ Len(asked[1]) = MaxLog
  /\ asked[1] = signatures[1]
  /\ fetchCalls[1] > Len(asked[1])

\* ----------------------------------------------------------------------
\* C21: a call sleeps once after every attempt that returned no signature,
\* the last one included, and never before its first attempt: it has slept
\* as often as it has ended attempts, maxAttempts times when it times out and
\* k - 1 times when its k-th attempt returns.
C21_SleepDiscipline ==
  \A c \in Calls :
    /\ sleeps[c] = attempt[c] + (IF pending[c] = "sleep" THEN 1 ELSE 0)
    /\ (state[c] = "Idle" \/ (attempt[c] = 0 /\ pending[c] # "sleep")) => sleeps[c] = 0
    /\ state[c] = "TimedOut" => sleeps[c] = maxAttempts[c]
    /\ state[c] = "Found" => sleeps[c] = listCalls[c] - 1

C21_Witness ==
  /\ state[1] = "Found"
  /\ listCalls[1] = MaxBudget
  /\ sleeps[1] = MaxBudget - 1
  /\ sleeps[1] > 0

\* ======================================================================
\* two calls made with the same offset and options that differ in commitment
\* only (one attempt each), each writing down what its awaits resolve with
InitCommit ==
  /\ InitOptions({1, 2}, {1, 2}, [c \in Calls |-> OffsetA], {1, 2},
                 ExplicitOptions({OPPORTUNITY_MARKET_PROGRAM_ADDRESS}, {1, MaxLog}, {1},
                                 {"confirmed", "finalized"}, {DefaultPollInterval}))
  /\ CodecIdle
  /\ signaturesToCheck[1] = signaturesToCheck[2]
  /\ commitment[1] = "confirmed"
  /\ commitment[2] = "finalized"

SpecCommit == InitCommit /\ [][Next]_vars

\* everything a call owns but the commitment it hands to getTransaction
LocalButCommitment(c) ==
  << state[c], pending[c], attempt[c], signatures[c], sigIndex[c], fetched[c], caught[c],
     result[c], thrown[c], listCalls[c], fetchCalls[c], sleeps[c], listRequest[c],
     asked[c], fetchRequest[c].signature, timerDelay[c], heard[c] >>

\* C22: commitment is handed to getTransaction and used for nothing else: two
\* calls that differ in commitment only and whose awaits resolved with the same
\* responses have issued the same calls, decided the same on every line and
\* are in the same state.
C22_CommitmentOnlyPassedOn ==
  \A c, d \in active :
    /\ fetchRequest[c].commitment \in {"none", commitment[c]}
    /\ (/\ computationOffset[c] = computationOffset[d]
        /\ mxeProgramId[c] = mxeProgramId[d]
        /\ signaturesToCheck[c] = signaturesToCheck[d]
        /\ maxAttempts[c] = maxAttempts[d]
        /\ pollInterval[c] = pollInterval[d]
        /\ state[c] # "Idle"
        /\ state[d] # "Idle"
        /\ heard[c] = heard[d]) => LocalButCommitment(c) = LocalButCommitment(d)

C22_Witness ==
  /\ state[1] = "Found"
  /\ state[2] = "Found"
  /\ heard[1] = heard[2]
  /\ result[1] = result[2]
  /\ fetchRequest[1].commitment = "confirmed"
  /\ fetchRequest[2].commitment = "finalized"
  /\ fetchCalls[1] = 2

\* ======================================================================
\* The body of `for (const log of logs)` (lines 110-131) on its own: two
\* lines 'Program data: ' + base64(payload) whose payloads have the same
\* first 48 bytes, examined against the keys of a call.
Heads ==
  { EventA, EventB, Event(WrongDiscriminator, OffsetABytes, "mxe"),
    Event(FINALIZE_COMPUTATION_EVENT_DISCRIMINATOR, OffsetABytes, "other") }

Tails == { <<>>, <<0>>, <<1, 2>>, <<255, 255, 255>>, <<27, 75, 117, 221>>, EventB }

InitProbe ==
  /\ InitCalls({}, {}, {0}, [c \in Calls |-> IF c = 1 THEN OffsetA ELSE OffsetB],
               {OPPORTUNITY_MARKET_PROGRAM_ADDRESS}, {})
  /\ codecVal = <<>>
  /\ codecWidth = 0
  /\ codecOut = <<>>
  /\ \E h \in Heads, t1 \in Tails, t2 \in Tails, offset \in {OffsetA, OffsetB},
        address \in Programs :
       probe = [first |-> h \o t1, second |-> h \o t2,
                offsetBytes |-> serializeLE(offset, OffsetLen),
                mxeProgramIdBytes |-> AddressBytes(address)]
  /\ verdict = <<>>
  /\ ProviderIdle
  /\ MarketIdle

\* both lines are examined
Examine ==
  /\ probe # NoProbe
  /\ verdict = <<>>
  /\ verdict' = << examineLog(Framed(probe.first), probe.offsetBytes, probe.mxeProgramIdBytes),
                   examineLog(Framed(probe.second), probe.offsetBytes, probe.mxeProgramIdBytes) >>
  /\ UNCHANGED << awaitVars, callArgs, cancelRequested, codecVal, codecWidth, codecOut, probe,
                  provider, marketVars >>

NextProbe == Examine

SpecProbe == InitProbe /\ [][NextProbe]_vars

\* C23: whether a line matches depends on the first 48 bytes of its payload
\* only: two payloads of at least 48 bytes with the same first 48 bytes get
\* the same decision, whatever bytes follow, and the decision is that of the
\* 48 bytes.
C23_TrailingBytesIgnored ==
  (/\ verdict # <<>>
   /\ Len(probe.first) >= MinEventLen
   /\ Len(probe.second) >= MinEventLen
   /\ SubSeq(probe.first, 1, MinEventLen) = SubSeq(probe.second, 1, MinEventLen)) =>
     /\ verdict[1] = verdict[2]
     /\ verdict[1] = "return" <=>
          IsEventOf(SubSeq(probe.first, 1, MinEventLen), probe.offsetBytes,
                    probe.mxeProgramIdBytes)

C23_Witness ==
  /\ verdict = <<"return", "return">>
  /\ Len(probe.first) = MinEventLen
  /\ Len(probe.second) = 2 * MinEventLen

\* ======================================================================
\* Calls with and without options: none at all, every property written out,
\* and some properties written out while the others are left undefined.
OptionChoices ==
  { NoOptions,
    [NoOptions EXCEPT !.maxAttempts = <<1>>, !.commitment = <<"finalized">>],
    [NoOptions EXCEPT !.maxAttempts = <<1>>, !.mxeProgramId = <<OtherProgram>>,
                      !.signaturesToCheck = <<1>>, !.pollInterval = <<0>>] }
    \cup ExplicitOptions(Programs, {1}, {0, MaxBudget}, {"finalized"}, {0})

InitDefaults ==
  /\ InitOptions({1}, {1, 2}, [c \in Calls |-> OffsetA], {}, OptionChoices)
  /\ CodecIdle

SpecDefaults == InitDefaults /\ [][Next]_vars

\* the value in use for a property of options
InUse(c, value, written, default) ==
  /\ written = <<>> => value = default
  /\ written # <<>> => value = written[1]

\* C24: a call without options, or with a property of options undefined, lists
\* 50 signatures, sleeps 1000 ms, makes 120 attempts, fetches at "confirmed"
\* and matches the default program; a property that is written out is the one
\* in use, whatever its value.
C24_DefaultsAndOverrides ==
  \A c \in active :
    /\ listRequest[c] # NoRequest =>
         InUse(c, listRequest[c].limit, options[c].signaturesToCheck, 50)
    /\ timerDelay[c] # <<>> => InUse(c, timerDelay[c][1], options[c].pollInterval, 1000)
    /\ fetchRequest[c] # NoFetch =>
         InUse(c, fetchRequest[c].commitment, options[c].commitment, "confirmed")
    /\ state[c] = "TimedOut" =>
         /\ InUse(c, thrown[c].attempts, options[c].maxAttempts, 120)
         /\ InUse(c, sleeps[c], options[c].maxAttempts, 120)
    /\ state[c] \notin Terminal => attempt[c] <= 120
    /\ \A i \in 1..Len(fetched[c]) :
         (fetched[c][i] = "logs" /\ KindAt(c, i) \in {1, 2}) =>
           InUse(c, IF state[c] = "Found" /\ result[c] = signatures[c][i]
                    THEN IF KindAt(c, i) = 1 THEN OtherProgram
                         ELSE OPPORTUNITY_MARKET_PROGRAM_ADDRESS
                    ELSE IF KindAt(c, i) = 1 THEN OPPORTUNITY_MARKET_PROGRAM_ADDRESS
                         ELSE OtherProgram,
                 options[c].mxeProgramId, OPPORTUNITY_MARKET_PROGRAM_ADDRESS)

C24_Witness ==
  /\ options[1] = NoOptions
  /\ state[1] = "TimedOut"
  /\ listCalls[1] = 120
  /\ sleeps[1] = 120
  /\ timerDelay[1] = <<1000>>
  /\ listRequest[1].limit = 50
  /\ fetchRequest[1].commitment = "confirmed"

\* ======================================================================
\* C25: when getTransaction rejects for the k-th listed signature the attempt
\* is over: the signatures asked for in it are the first k of the listing and
\* no more, whatever the later ones hold; the call is in the one sleep that
\* follows the attempt; and none of the k-1 transactions fetched before held
\* the event, for the call would have returned there.
C25_FetchErrorEndsAttempt ==
  \A c \in active :
    caught[c] = "fetch" =>
      /\ state[c] = "Polling"
      /\ pending[c] = "sleep"
      /\ sigIndex[c] \in 1..Len(signatures[c])
      /\ asked[c] = SubSeq(signatures[c], 1, sigIndex[c])
      /\ Len(fetched[c]) = sigIndex[c] - 1
      /\ fetchRequest[c].signature = signatures[c][sigIndex[c]]
      /\ sleeps[c] = attempt[c] + 1
      /\ timerDelay[c] = <<pollInterval[c]>>
      /\ \A i \in 1..Len(fetched[c]) :
           ~(fetched[c][i] = "logs" /\ KindAt(c, i) \in KindsBearing[computationOffset[c]])

C25_Witness ==
  /\ caught[1] = "fetch"
  /\ sigIndex[1] = 1
  /\ Len(signatures[1]) = 2
  /\ KindAt(1, 2) \in KindsBearing[computationOffset[1]]
  /\ attempt[1] = 1

\* ======================================================================
\* C26: a getTransaction that resolves with null, or with a transaction that
\* has no meta or no logMessages, is no error and no match: the call does not
\* return that signature, nothing is caught, and the attempt goes on with the
\* next listed signature, or ends as an attempt without a match when it was
\* the last one.
C26_NullAndLoglessSkipped ==
  \A c \in active :
    \A i \in 1..Len(fetched[c]) :
      fetched[c][i] \in {"null", "nometa"} =>
        /\ ~(state[c] = "Found" /\ result[c] = signatures[c][i])
        /\ caught[c] # "scan"
        /\ i < Len(signatures[c]) =>
             /\ Len(asked[c]) > i
             /\ asked[c][i + 1] = signatures[c][i + 1]
        /\ i = Len(signatures[c]) =>
             /\ state[c] = "Polling"
             /\ pending[c] = "sleep"
             /\ caught[c] = "none"
             /\ sleeps[c] = attempt[c] + 1

C26_Witness ==
  /\ fetched[1] = <<"nometa", "logs">>
  /\ state[1] = "Found"
  /\ result[1] = signatures[1][2]

\* ======================================================================
\* Calls with options.maxAttempts of 0 or below (and of 1, for the loop to be
\* entered as well).
InitBudget ==
  /\ InitCalls({1}, {1, 2}, {-1, -MaxBudget, 1},
               [c \in Calls |-> IF c = 1 THEN OffsetA ELSE OffsetB],
               {OPPORTUNITY_MARKET_PROGRAM_ADDRESS}, {})
  /\ CodecIdle

SpecBudget == InitBudget /\ [][Next]_vars

\* C27: with maxAttempts <= 0 a call that is made has thrown the timeout at
\* once: no getSignaturesForAddress, no getTransaction and no sleep were
\* issued, whatever the log holds.
C27_NoBudgetNoCalls ==
  \A c \in active :
    (maxAttempts[c] <= 0 /\ state[c] # "Idle") =>
      /\ state[c] = "TimedOut"
      /\ thrown[c] = [kind |-> "timeout", attempts |-> maxAttempts[c],
                      offset |-> computationOffset[c]]
      /\ listCalls[c] = 0
      /\ fetchCalls[c] = 0
      /\ sleeps[c] = 0
      /\ pending[c] = "none"
      /\ listRequest[c] = NoRequest
      /\ fetchRequest[c] = NoFetch
      /\ timerDelay[c] = <<>>

C27_Witness ==
  /\ maxAttempts[1] = -1
  /\ state[1] = "TimedOut"
  /\ listCalls[1] = 0
  /\ \E i \in 1..Len(log) : log[i] \in KindsBearing[computationOffset[1]]

\* ======================================================================
\* Handles outside 0 .. 2^64 - 1. A bigint is the sum of its limbs, the last
\* of which may be negative; OffsetA + 2^64 and OffsetA - 2^64 are two.
OffsetAWide == OffsetA \o <<1>>
OffsetANegative == OffsetA \o <<-1>>

WideHandles ==
  {OffsetA, OffsetB, OffsetAWide, OffsetANegative}
    \cup UNION { [1..n -> {0, 255, 65535}] : n \in 0..(MaxLimbs + 1) }
    \cup UNION { { l \o <<t>> : l \in [1..n -> {0, 65535}] } :
                   n \in 0..MaxLimbs, t \in {-1, -256, -65536} }

\* val mod 2^64, as four limbs: the limbs of val's two's complement
Mod64(val) ==
  [i \in 1..4 |->
     IF i < Len(val) THEN val[i]
     ELSE IF i = Len(val) THEN val[i] % Limb
     ELSE IF Len(val) > 0 /\ val[Len(val)] < 0 THEN Limb - 1 ELSE 0]

\* either serializeLE(val, 8) on its own, or a call for a handle congruent to
\* OffsetA modulo 2^64 while events for OffsetA and OffsetB land
InitWide ==
  \/ /\ InitCalls({}, {}, {0}, [c \in Calls |-> IF c = 1 THEN OffsetA ELSE OffsetB],
                  {OPPORTUNITY_MARKET_PROGRAM_ADDRESS}, {})
     /\ codecVal \in WideHandles
     /\ codecWidth = OffsetLen
     /\ codecOut = <<>>
     /\ OthersIdle
  \/ /\ \E offset \in {OffsetAWide, OffsetANegative} :
          InitCalls({1}, {1, 2, 3}, {1}, [c \in Calls |-> offset],
                    {OPPORTUNITY_MARKET_PROGRAM_ADDRESS}, {})
     /\ CodecIdle

NextWide == Next \/ Encode

SpecWide == InitWide /\ [][NextWide]_vars

\* the kinds of transaction bearing the event of a handle congruent to offset
KindsBearingModulo(offset) ==
  UNION { KindsBearing[h] : h \in { g \in {OffsetA, OffsetB} : Mod64(g) = Mod64(offset) } }

\* C28: serializeLE(val, 8) returns, for every val, the 8 little-endian bytes
\* of val mod 2^64; so a call for a handle returns the transaction of an
\* event emitted for any handle congruent to it modulo 2^64, and only such.
C28_HandleModulo ==
  /\ codecOut # <<>> =>
       /\ Len(codecOut) = OffsetLen
       /\ \A i \in 1..Len(codecOut) : codecOut[i] \in 0..255
       /\ FromLE(codecOut) = Mod64(codecVal)
  /\ \A c \in active :
       /\ state[c] = "Found" =>
            \E i \in 1..Len(signatures[c]) :
              /\ result[c] = signatures[c][i]
              /\ KindAt(c, i) \in KindsBearingModulo(computationOffset[c])
       /\ \A i \in 1..Len(fetched[c]) :
            (fetched[c][i] = "logs" /\ KindAt(c, i) \in KindsBearingModulo(computationOffset[c]))
              => (state[c] = "Found" /\ result[c] = signatures[c][i])

C28_Witness ==
  /\ computationOffset[1] = OffsetAWide
  /\ state[1] = "Found"
  /\ log[result[1]] \in KindsBearing[OffsetA]

\* ======================================================================
\* X25519Provider (demo-app/components/x25519-provider.tsx, lines 28-94).
\* A signature is named by the wallet that made it and a keypair by the
\* wallet whose signature it was derived from; the item in localStorage is
\* "null" (none), "garbage" (JSON.parse or the reads of line 52-53 throw) or
\* the keypair written by line 76.
MaxEvents == 4

\* the wallets whose adapter has signMessage
Signers == {"A", "B"}

\* line 98
isReady == ~loading /\ keypair # "null"

InitWallet ==
  /\ InitCalls({}, {}, {0}, [c \in Calls |-> IF c = 1 THEN OffsetA ELSE OffsetB],
               {OPPORTUNITY_MARKET_PROGRAM_ADDRESS}, {})
  /\ codecVal = <<>>
  /\ codecWidth = 0
  /\ codecOut = <<>>
  /\ probe = NoProbe
  /\ verdict = <<>>
  /\ MarketIdle
  /\ publicKey = "none"
  /\ keypair = "null"
  /\ loading = FALSE
  /\ error = "null"
  /\ isDerivingRef = FALSE
  /\ localStorage \in { s \in [Wallets -> {"null", "garbage"} \cup Wallets] :
                          \A w \in Wallets : s[w] \in {"null", "garbage", w} }
  /\ signing = [w \in Wallets |-> 0]
  /\ effectDue = TRUE
  /\ walletEvents = 0

\* everything but the provider
besides == << awaitVars, callArgs, cancelRequested, codecVal, codecWidth, codecOut, probe,
              verdict, marketVars >>

\* the wallet adapter connects w, disconnects ("none") or switches to w: the
\* provider is rendered with the new publicKey and signMessage
WalletChange(w) ==
  /\ walletEvents < MaxEvents
  /\ w # publicKey
  /\ publicKey' = w
  /\ effectDue' = TRUE
  /\ walletEvents' = walletEvents + 1
  /\ UNCHANGED << keypair, loading, error, isDerivingRef, localStorage, signing, besides >>

\* lines 61-70 and 93: deriveKeypair() up to its await
deriveKeypair ==
  IF publicKey \notin Signers
  THEN /\ error' = "Wallet does not support message signing"
       /\ UNCHANGED << isDerivingRef, loading, signing >>
  ELSE /\ isDerivingRef' = TRUE
       /\ loading' = TRUE
       /\ error' = "null"
       /\ signing' = [signing EXCEPT ![publicKey] = @ + 1]

\* lines 35-94: the effect runs after a render in which publicKey or
\* signMessage changed
RunEffect ==
  /\ effectDue
  /\ effectDue' = FALSE
  /\ IF publicKey = "none"
     THEN /\ keypair' = "null"
          /\ error' = "null"
          /\ isDerivingRef' = FALSE
          /\ UNCHANGED << loading, localStorage, signing >>
     ELSE IF isDerivingRef
     THEN UNCHANGED << keypair, loading, error, isDerivingRef, localStorage, signing >>
     ELSE IF localStorage[publicKey] \notin {"null", "garbage"}
     THEN /\ keypair' = localStorage[publicKey]
          /\ UNCHANGED << loading, error, isDerivingRef, localStorage, signing >>
     ELSE /\ localStorage' = [localStorage EXCEPT ![publicKey] = "null"]
          /\ deriveKeypair
          /\ UNCHANGED keypair
  /\ UNCHANGED << publicKey, walletEvents, besides >>

\* lines 73-84 and 87-90: a signMessage asked of wallet w resolves
SignResolve(w) ==
  /\ signing[w] > 0
  /\ signing' = [signing EXCEPT ![w] = @ - 1]
  /\ localStorage' = [localStorage EXCEPT ![w] = w]
  /\ keypair' = w
  /\ loading' = FALSE
  /\ isDerivingRef' = FALSE
  /\ UNCHANGED << publicKey, error, effectDue, walletEvents, besides >>

\* lines 85-90: a signMessage asked of wallet w rejects
SignReject(w) ==
  /\ signing[w] > 0
  /\ signing' = [signing EXCEPT ![w] = @ - 1]
  /\ error' = "Failed to sign message"
  /\ loading' = FALSE
  /\ isDerivingRef' = FALSE
  /\ UNCHANGED << publicKey, keypair, localStorage, effectDue, walletEvents, besides >>

NextWallet ==
  \/ \E w \in Wallets \cup {"none"} : WalletChange(w)
  \/ RunEffect
  \/ \E w \in Wallets : SignResolve(w)
  \/ \E w \in Wallets : SignReject(w)

SpecWallet == InitWallet /\ [][NextWallet]_vars

\* C29: once the effect has run for the latest wallet event, with no wallet
\* connected the keypair is null and isReady is false, and with a wallet
\* connected a keypair that is not null is the one stored or derived for that
\* wallet, also when a signMessage request outlives a disconnect or a switch.
C29_KeypairOfConnectedWallet ==
  ~effectDue =>
    /\ publicKey = "none" => (keypair = "null" /\ ~isReady)
    /\ (publicKey # "none" /\ keypair # "null") => keypair = publicKey

\* ======================================================================
\* computeMarketStatus (part_007, lines 9-37). A number | null is <<>> for
\* null and <<n>> for the number n.
MaxClock == 9

computeMarketStatusClosedReveal(m) ==
  LET now == dateNow \div 1000 IN
  IF m.openTimestamp = <<>> \/ m.openTimestamp = <<0>> THEN "not_funded"
  ELSE LET openTs == m.openTimestamp[1]
           stakeEndTs == openTs + m.timeToStake
           revealEndTs == stakeEndTs + m.timeToReveal
       IN  IF m.selectedOption # <<>> THEN "resolved"
           ELSE IF now >= stakeEndTs /\ now < revealEndTs THEN "revealing"
           ELSE IF now >= openTs /\ now < stakeEndTs THEN "open"
           ELSE "not_funded"

computeMarketStatus(m) ==
  LET now == dateNow \div 1000 IN
  IF m.openTimestamp = <<>> \/ m.openTimestamp = <<0>> THEN "not_funded"
  ELSE LET openTs == m.openTimestamp[1]
           stakeEndTs == openTs + m.timeToStake
           revealEndTs == stakeEndTs + m.timeToReveal
       IN  IF m.selectedOption # <<>> THEN "resolved"
           ELSE IF now >= revealEndTs /\ m.selectedOption = <<>> THEN "revealing"
           ELSE IF now >= stakeEndTs /\ now < revealEndTs THEN "revealing"
           ELSE IF now >= openTs /\ now < stakeEndTs THEN "open"
           ELSE "not_funded"

Markets ==
  [openTimestamp : {<<>>, <<0>>, <<3>>}, timeToStake : {0, 2}, timeToReveal : {0, 2},
   selectedOption : {<<>>, <<0>>, <<1>>}]

InitMarket ==
  /\ InitCalls({}, {}, {0}, [c \in Calls |-> IF c = 1 THEN OffsetA ELSE OffsetB],
               {OPPORTUNITY_MARKET_PROGRAM_ADDRESS}, {})
  /\ codecVal = <<>>
  /\ codecWidth = 0
  /\ codecOut = <<>>
  /\ probe = NoProbe
  /\ verdict = <<>>
  /\ ProviderIdle
  /\ market \in Markets
  /\ dateNow = 0
  /\ status = NoStatus

\* half a second passes
Tick ==
  /\ dateNow < MaxClock * 1000
  /\ dateNow' = dateNow + 500
  /\ UNCHANGED << awaitVars, callArgs, cancelRequested, codecVal, codecWidth, codecOut, probe,
                  verdict, provider, market, status >>

\* computeMarketStatus(market) is called
Compute ==
  /\ status' = [value |-> computeMarketStatus(market), now |-> dateNow \div 1000]
  /\ UNCHANGED << awaitVars, callArgs, cancelRequested, codecVal, codecWidth, codecOut, probe,
                  verdict, provider, market, dateNow >>

NextMarket == Tick \/ Compute

SpecMarket == InitMarket /\ [][NextMarket]_vars

\* the order of the statuses of a market nobody has resolved
Rank(value) ==
  CASE value = "none" -> 0
    [] value = "not_funded" -> 1
    [] value = "open" -> 2
    [] value = "revealing" -> 3
    [] value = "resolved" -> 4

\* openTimestamp is neither null nor 0
Funded(m) == m.openTimestamp # <<>> /\ m.openTimestamp[1] # 0

\* C30: a status computed for a market is resolved exactly when selectedOption
\* is not null and openTimestamp is set, and not_funded when openTimestamp is
\* null or 0; with openTimestamp set and selectedOption null it is not_funded
\* before open, open from open to open + timeToStake, revealing from then on
\* without end, so that a later computation never gives an earlier status.
C30_StatusMonotone ==
  /\ [](status # NoStatus =>
          /\ status.value = "resolved" <=> (market.selectedOption # <<>> /\ Funded(market))
          /\ ~Funded(market) => status.value = "not_funded"
          /\ (Funded(market) /\ market.selectedOption = <<>>) =>
               status.value =
                 IF status.now < market.openTimestamp[1] THEN "not_funded"
                 ELSE IF status.now < market.openTimestamp[1] + market.timeToStake THEN "open"
                 ELSE "revealing")
  /\ [][Rank(status'.value) >= Rank(status.value)]_vars

C30_Witness ==
  /\ market.selectedOption = <<>>
  /\ market.timeToStake > 0
  /\ market.timeToReveal > 0
  /\ Funded(market)
  /\ status.value = "revealing"
  /\ status.now > market.openTimestamp[1] + market.timeToStake + market.timeToReveal

====
